---- MODULE Spec2Model ----
(***************************************************************************)
(* OptDepth (src/ebltable/tau_from_model.py): a table of optical depths    *)
(* tau over (log10 energy in GeV, redshift), the cached bivariate spline   *)
(* built from it, the three property setters that replace one grid and     *)
(* rebuild the spline, and the evaluators opt_depth, opt_depth_inverse and *)
(* opt_depth_Ebin.                                                         *)
(*                                                                         *)
(* Numbers.  Energies are powers of ten (GeV for the table, TeV for the    *)
(* queries), redshifts and optical depths are integers.  Every ascending   *)
(* grid offered to the model samples consecutive lattice points, so a      *)
(* queried coordinate is either a knot of the spline or outside its        *)
(* bounding box.  There the value of an interpolating (s = 0) spline does  *)
(* not depend on its degree: it passes through the samples, and FITPACK    *)
(* clamps a coordinate outside the box to the box.                         *)
(***************************************************************************)
EXTENDS Integers, Sequences, FiniteSets, TLC

\* ---- bounds of the model ------------------------------------------------
\* longest z / ETeV array handed to opt_depth
MaxLen == 2

\* ---- constants of the program -------------------------------------------
\* kx = 2, ky = 2: the defaults of __init__ and of the three setters
DefaultK == 2
\* ETeV * 1e3
GeVperTeV == 1000
\* USpline(..., k = 1, ...)
InverseK == 1

VARIABLES inst, z, logEGeV, tau, tauSpline, ret, ctorK, rebuilt, lastWrite

vars == <<inst, z, logEGeV, tau, tauSpline, ret, ctorK, rebuilt, lastWrite>>

\* ---- numpy ----------------------------------------------------------------
RECURSIVE Pow10(_)
\* np.power(10., e) for an integer e (0 stands for a value below 1)
Pow10(e) == IF e < 0 THEN 0 ELSE IF e = 0 THEN 1 ELSE 10 * Pow10(e - 1)

RECURSIVE Log10(_)
\* np.log10(n), exact on the powers of ten the model uses
Log10(n) == IF n < 10 THEN 0 ELSE 1 + Log10(n \div 10)

\* an ndarray: the values of f, stored
Array(f) == SubSeq(f, 1, Len(f))

\* np.log10 of an array
Log10Seq(s) == Array([i \in 1..Len(s) |-> Log10(s[i])])

\* the place of s[a] in sorted order, ties in index order
Rank(s, a) ==
  1 + Cardinality({b \in 1..Len(s) : s[b] < s[a] \/ (s[b] = s[a] /\ b < a)})

\* np.argsort(s): the permutation that sorts s
ArgSort(s) == Array([k \in 1..Len(s) |-> CHOOSE a \in 1..Len(s) : Rank(s, a) = k])

\* np.sort(s)
Sort(s) == LET p == ArgSort(s) IN Array([k \in 1..Len(s) |-> s[p[k]]])

\* m.transpose() of a rows x cols matrix
Transpose(m, rows, cols) ==
  Array([j \in 1..cols |-> Array([i \in 1..rows |-> m[i][j]])])

\* np.squeeze on a shape: every axis of length 1 is removed
Squeeze(shape) == SelectSeq(shape, LAMBDA d : d # 1)

StrictlyIncreasing(s) == \A i \in 1..(Len(s) - 1) : s[i] < s[i + 1]

IsMatrix(t, n, m) == Len(t) = n /\ \A i \in 1..n : Len(t[i]) = m

\* ---- scipy.interpolate.RectBivariateSpline --------------------------------
\* RBSpline(x, y, z, kx, ky) raises unless x and y are strictly increasing,
\* z has shape (len(x), len(y)) and each axis has more points than its degree.
RBSplineFits(x, y, t, kx, ky) ==
  /\ StrictlyIncreasing(x)
  /\ StrictlyIncreasing(y)
  /\ IsMatrix(t, Len(x), Len(y))
  /\ Len(x) > kx
  /\ Len(y) > ky

\* the spline object: what it was built from
RBSpline(x, y, t, kx, ky) == [x |-> x, y |-> y, z |-> t, kx |-> kx, ky |-> ky]

NoSpline == [x |-> <<>>, y |-> <<>>, z |-> <<>>, kx |-> 0, ky |-> 0]

Clamp(v, lo, hi) == IF v < lo THEN lo ELSE IF v > hi THEN hi ELSE v

\* the knot a coordinate falls on, after clamping to the bounding box
KnotIndex(knots, v) ==
  CHOOSE i \in 1..Len(knots) : knots[i] = Clamp(v, knots[1], knots[Len(knots)])

\* spline(xs, ys) on the grid xs x ys: a len(xs) x len(ys) matrix
SplineCall(s, xs, ys) ==
  Array([i \in 1..Len(xs) |->
    Array([j \in 1..Len(ys) |-> s.z[KnotIndex(s.x, xs[i])][KnotIndex(s.y, ys[j])]])])

\* ---- scipy.interpolate.UnivariateSpline (s = 0, k = 1, extrapolating) ------
\* USpline(x, y, ...) is defined for strictly increasing x with more than k points
USplineFits(x) == StrictlyIncreasing(x) /\ Len(x) > InverseK

\* USpline(x, y, ...)(t): the piecewise linear interpolant through (x[i], y[i]),
\* continued linearly outside; the value is <<num, den>>, standing for num / den
USplineAt(x, y, t) ==
  LET n == Len(x)
      i == IF t <= x[1] THEN 1
           ELSE IF t >= x[n] THEN n - 1
           ELSE CHOOSE k \in 1..(n - 1) : x[k] <= t /\ t < x[k + 1]
  IN  <<y[i] * (x[i + 1] - x[i]) + (t - x[i]) * (y[i + 1] - y[i]), x[i + 1] - x[i]>>

\* ---- scipy.integrate.simps ------------------------------------------------
RECURSIVE SimpsonOdd(_, _, _)
\* Simpson's rule over y[lo..hi] (an even number of intervals), in units of h/3
SimpsonOdd(y, lo, hi) ==
  IF lo >= hi THEN 0 ELSE y[lo] + 4 * y[lo + 1] + y[lo + 2] + SimpsonOdd(y, lo + 2, hi)

\* simps(y, x) on an evenly spaced x, in units of h/12; for an even number of
\* samples the two ways of adding a trapezoid are averaged (even = 'avg')
Simps(y) ==
  LET n == Len(y)
  IN  IF n % 2 = 1
        THEN 4 * SimpsonOdd(y, 1, n)
        ELSE 2 * SimpsonOdd(y, 1, n - 1) + 3 * (y[n - 1] + y[n])
               + 3 * (y[1] + y[2]) + 2 * SimpsonOdd(y, 2, n)

\* ---- inputs ---------------------------------------------------------------
Ramp(a, n) == [i \in 1..n |-> a + i - 1]

\* redshift tables: two ascending ones, a shorter one, an unsorted one
ZGridInputs == {Ramp(1, 3), Ramp(2, 3), Ramp(1, 2), <<3, 1, 2>>}

\* energy tables in GeV
EGeVInputs == {<<1000, 10000, 100000>>, <<10000, 100000, 1000000>>, <<1000, 10000>>}

\* tau grows with energy and with redshift, all entries distinct
TauRise(n, m) == [i \in 1..n |-> [j \in 1..m |-> 4 * i + j]]

\* tau falls with energy
TauFall(n, m) == [i \in 1..n |-> [j \in 1..m |-> 4 * (n + 1 - i) + j]]

\* the table [[0,0,0],[0.1,0.3,0.5],[1,2,3]], in tenths
TauScenario == <<<<0, 0, 0>>, <<1, 3, 5>>, <<10, 20, 30>>>>

TauInputs == {TauRise(3, 3), TauFall(3, 3), TauRise(2, 3), TauRise(3, 2)}

EvalTauInputs == TauInputs \cup {TauScenario, TauRise(2, 2)}

Degrees == {1, 2}

Arrays(V, n) == UNION {[1..k -> V] : k \in 1..n}

\* a scalar, a list or a 1-D array of values of V (lists: of values of W);
\* v holds the values in every case
Queries(V, W, n) ==
  {[kind |-> "scalar", v |-> <<x>>] : x \in V}
    \cup {[kind |-> "list", v |-> s] : s \in Arrays(W, n)}
    \cup {[kind |-> "array", v |-> s] : s \in Arrays(V, n)}

ZQueryValues == {0, 1, 2, 3}

ETeVQueryValues == {1, 10, 100}

ZQueries == Queries(ZQueryValues, {2}, MaxLen)

ETeVQueries == Queries(ETeVQueryValues, {10}, MaxLen)

\* the queries of the table's lifetime: scalars, and arrays mixing 0 and 2
ZProbes ==
  {[kind |-> "scalar", v |-> <<x>>] : x \in ZQueryValues}
    \cup {[kind |-> "array", v |-> s] : s \in [1..2 -> {0, 2}]}

ETeVProbes == {[kind |-> "scalar", v |-> <<10>>]}

\* optical depths asked of opt_depth_inverse
TauQueryValues == 0..15

EbinInputs == {<<1, 10>>, <<10, 100>>, <<1, 100>>, <<1, 10, 100>>}

EstepsInputs == {2, 3}

\* ---- OptDepth -------------------------------------------------------------
Init ==
  /\ inst = FALSE
  /\ z = <<>>
  /\ logEGeV = <<>>
  /\ tau = <<>>
  /\ tauSpline = NoSpline
  /\ ret = [op |-> "none"]
  /\ ctorK = <<0, 0>>
  /\ rebuilt = FALSE
  /\ lastWrite = "none"

\* a constructor that returns the instance whatever RBSpline says
init_unchecked(zIn, EGeV, tauIn, kx, ky) ==
  /\ ~inst
  /\ inst' = TRUE
  /\ z' = zIn
  /\ logEGeV' = Log10Seq(EGeV)
  /\ tau' = tauIn
  /\ tauSpline' = RBSpline(Log10Seq(EGeV), zIn, tauIn, kx, ky)
  /\ ctorK' = <<kx, ky>>
  /\ lastWrite' = "ok"
  /\ ret' = [op |-> "init", z |-> zIn, EGeV |-> EGeV, tau |-> tauIn, raised |-> FALSE]
  /\ UNCHANGED rebuilt

\* OptDepth(z, EGeV, tau, kx, ky): an instance exists only if RBSpline returns
init(zIn, EGeV, tauIn, kx, ky) ==
  /\ ~inst
  /\ IF RBSplineFits(Log10Seq(EGeV), zIn, tauIn, kx, ky)
       THEN /\ inst' = TRUE
            /\ z' = zIn
            /\ logEGeV' = Log10Seq(EGeV)
            /\ tau' = tauIn
            /\ tauSpline' = RBSpline(Log10Seq(EGeV), zIn, tauIn, kx, ky)
            /\ ctorK' = <<kx, ky>>
            /\ lastWrite' = "ok"
            /\ ret' = [op |-> "init", z |-> zIn, EGeV |-> EGeV, tau |-> tauIn,
                       raised |-> FALSE]
       ELSE /\ UNCHANGED <<inst, z, logEGeV, tau, tauSpline, ctorK, lastWrite>>
            /\ ret' = [op |-> "init", z |-> zIn, EGeV |-> EGeV, tau |-> tauIn,
                       raised |-> TRUE]
  /\ UNCHANGED rebuilt

\* a rebuild that reuses the degrees given to the constructor
Rebuild_ctor_degrees(x, y, t, name) ==
  /\ IF RBSplineFits(x, y, t, ctorK[1], ctorK[2])
       THEN /\ tauSpline' = RBSpline(x, y, t, ctorK[1], ctorK[2])
            /\ rebuilt' = TRUE
            /\ lastWrite' = "ok"
            /\ ret' = [op |-> name, raised |-> FALSE]
       ELSE /\ UNCHANGED <<tauSpline, rebuilt>>
            /\ lastWrite' = "raised"
            /\ ret' = [op |-> name, raised |-> TRUE]
  /\ UNCHANGED <<inst, ctorK>>

\* the second statement of each setter: RBSpline on the stored grids, with the
\* setter's own default degrees; the spline is assigned only if RBSpline returns
Rebuild(x, y, t, name) ==
  /\ IF RBSplineFits(x, y, t, DefaultK, DefaultK)
       THEN /\ tauSpline' = RBSpline(x, y, t, DefaultK, DefaultK)
            /\ rebuilt' = TRUE
            /\ lastWrite' = "ok"
            /\ ret' = [op |-> name, raised |-> FALSE]
       ELSE /\ UNCHANGED <<tauSpline, rebuilt>>
            /\ lastWrite' = "raised"
            /\ ret' = [op |-> name, raised |-> TRUE]
  /\ UNCHANGED <<inst, ctorK>>

\* self.z = zIn
z_setter(zIn) ==
  /\ inst
  /\ z' = zIn
  /\ UNCHANGED <<logEGeV, tau>>
  /\ Rebuild(logEGeV, zIn, tau, "z")

\* self.logEGeV = EGeV
logEGeV_setter(EGeV) ==
  /\ inst
  /\ logEGeV' = Log10Seq(EGeV)
  /\ UNCHANGED <<z, tau>>
  /\ Rebuild(Log10Seq(EGeV), z, tau, "logEGeV")

\* a tau setter that stores the table and keeps the old spline
tau_setter_stale(tauIn) ==
  /\ inst
  /\ tau' = tauIn
  /\ rebuilt' = TRUE
  /\ lastWrite' = "ok"
  /\ ret' = [op |-> "tau", raised |-> FALSE]
  /\ UNCHANGED <<inst, z, logEGeV, tauSpline, ctorK>>

\* self.tau = tauIn
tau_setter(tauIn) ==
  /\ inst
  /\ tau' = tauIn
  /\ UNCHANGED <<z, logEGeV>>
  /\ Rebuild(logEGeV, z, tauIn, "tau")

\* rows left in sorted order: tt = m
ScatterRows_sorted(args, m) == m

\* tt[args, :] = m
ScatterRows(args, m) ==
  Array([a \in 1..Len(m) |-> m[CHOOSE k \in 1..Len(args) : args[k] = a]])

\* result[:, args] = tt
ScatterCols(args, tt) ==
  Array([a \in 1..Len(tt) |->
    Array([b \in 1..Len(args) |-> tt[a][CHOOSE l \in 1..Len(args) : args[l] = b]])])

\* the energies taken as GeV: np.log10(ETeV)
LogGeV_no_unit(ETeV) == Log10Seq(ETeV)

\* np.log10(ETeV * 1e3)
LogGeV(ETeV) == Log10Seq(Array([i \in 1..Len(ETeV) |-> ETeV[i] * GeVperTeV]))

\* self.opt_depth(z, ETeV).  A 2-D ETeV (rows x Esteps, Esteps >= 2) raises:
\* result and tt get ETeV.shape[0] = rows columns, and neither the spline call
\* nor the assignment into tt accepts the rows x Esteps energies.
opt_depth(zq, ETeVq) ==
  LET ETeV == ETeVq.v
      zz == zq.v
      warned == \E a \in 1..Len(zz) : zz[a] < z[1]
  IN  IF ETeVq.kind = "array2d"
        THEN [raised |-> TRUE, warned |-> warned, shape |-> <<>>, value |-> <<>>]
        ELSE LET args_z == ArgSort(zz)
                 args_E == ArgSort(ETeV)
                 surf == Transpose(SplineCall(tauSpline, LogGeV(Sort(ETeV)), Sort(zz)),
                                   Len(ETeV), Len(zz))
                 tt == ScatterRows(args_z, surf)
                 result == ScatterCols(args_E, tt)
             IN  [raised |-> FALSE, warned |-> warned,
                  shape |-> Squeeze(<<Len(zz), Len(ETeV)>>), value |-> result]

\* the spline's value returned as it is, without np.power
Power10_log(q) ==
  [log10 |-> q, exact |-> q[1] % q[2] = 0, GeV |-> q[1] \div q[2]]

\* np.power(10., q) for q = <<num, den>>: exact when q is an integer, and then
\* GeV is the energy; otherwise the energy lies between GeV and 10 * GeV
Power10(q) ==
  [log10 |-> q, exact |-> q[1] % q[2] = 0, GeV |-> Pow10(q[1] \div q[2])]

\* self.opt_depth_inverse(z, tau): the outcomes.  On samples that are not
\* strictly increasing USpline raises or returns a spline fitted to invalid
\* data, depending on the scipy release.
opt_depth_inverse(zs, t) ==
  LET col == SplineCall(tauSpline, logEGeV, <<zs>>)
      x == Array([i \in 1..Len(logEGeV) |-> col[i][1]])
  IN  IF USplineFits(x)
        THEN {[raised |-> FALSE] @@ Power10(USplineAt(x, logEGeV, t))}
        ELSE {[raised |-> TRUE, log10 |-> <<0, 1>>, exact |-> FALSE, GeV |-> 0]}
               \cup {[raised |-> FALSE] @@ Power10(<<e, 1>>) : e \in {0, 3}}

\* np.linspace(np.log(a), np.log(b), Esteps), in decades: point k is
\* Linspace(a, b, Esteps)[k] / (Esteps - 1)
Linspace(a, b, n) ==
  Array([k \in 1..n |-> Log10(a) * (n - 1) + (k - 1) * (Log10(b) - Log10(a))])

RECURSIVE EbinLoop(_, _, _, _, _, _)
\* the for loop of opt_depth_Ebin from edge i on: each turn appends the bin's
\* grid to logE_array and calls opt_depth on np.exp(logE_array), the list so far
EbinLoop(i, zq, Ebin, Esteps, logE_array, acc) ==
  IF i = Len(Ebin)
    THEN [acc EXCEPT !.logE_array = logE_array]
    ELSE LET grown == Append(logE_array, Linspace(Ebin[i], Ebin[i + 1], Esteps))
             arg == [kind |-> "array2d", v |-> grown, den |-> Esteps - 1]
             out == opt_depth(zq, arg)
         IN  IF out.raised
               THEN [acc EXCEPT !.raised = TRUE, !.calls = Append(@, arg)]
               ELSE EbinLoop(i + 1, zq, Ebin, Esteps, grown,
                             [acc EXCEPT !.calls = Append(@, arg),
                                         !.t_array = Append(@, out.value[1])])

\* self.opt_depth_Ebin(z, Ebin, func, params, Esteps) for the flat spectrum
\* func = 1: per bin <<simps(E * t), simps(E)>>, the average being their ratio
opt_depth_Ebin(zq, Ebin, Esteps) ==
  LET r == EbinLoop(1, zq, Ebin, Esteps, <<>>,
                    [raised |-> FALSE, calls |-> <<>>, t_array |-> <<>>,
                     logE_array |-> <<>>])
      E(i) == [k \in 1..Esteps |-> Pow10(r.logE_array[i][k] \div (Esteps - 1))]
  IN  IF r.raised
        THEN [raised |-> TRUE, calls |-> r.calls, value |-> <<>>]
        ELSE [raised |-> FALSE, calls |-> r.calls,
              value |-> [i \in 1..Len(r.t_array) |->
                          <<Simps([k \in 1..Esteps |-> E(i)[k] * r.t_array[i][k]]),
                            Simps(E(i))>>]]

\* ---- the table's lifetime: construction, replacements, evaluations --------
Construct ==
  \E zIn \in ZGridInputs, EGeV \in EGeVInputs, tauIn \in TauInputs,
     kx \in Degrees, ky \in Degrees : init(zIn, EGeV, tauIn, kx, ky)

SetZ == \E zIn \in ZGridInputs : z_setter(zIn)

SetLogEGeV == \E EGeV \in EGeVInputs : logEGeV_setter(EGeV)

SetTau == \E tauIn \in TauInputs : tau_setter(tauIn)

Evaluate ==
  \E zq \in ZProbes, Eq \in ETeVProbes :
    /\ inst
    /\ ret' = [op |-> "opt_depth", z |-> zq, ETeV |-> Eq, out |-> opt_depth(zq, Eq)]
    /\ UNCHANGED <<inst, z, logEGeV, tau, tauSpline, ctorK, rebuilt, lastWrite>>

Next == Construct \/ SetZ \/ SetLogEGeV \/ SetTau \/ Evaluate

Spec == Init /\ [][Next]_vars

\* ---- one call on a freshly constructed table ------------------------------
InitEval ==
  /\ \E zIn \in ZGridInputs, EGeV \in EGeVInputs, tauIn \in EvalTauInputs,
        k \in Degrees :
       /\ RBSplineFits(Log10Seq(EGeV), zIn, tauIn, k, k)
       /\ inst = TRUE
       /\ z = zIn
       /\ logEGeV = Log10Seq(EGeV)
       /\ tau = tauIn
       /\ tauSpline = RBSpline(Log10Seq(EGeV), zIn, tauIn, k, k)
       /\ ctorK = <<k, k>>
  /\ rebuilt = FALSE
  /\ lastWrite = "ok"
  /\ \/ ret \in {[op |-> "call", fn |-> "opt_depth", z |-> zq, ETeV |-> Eq] :
                   zq \in ZQueries, Eq \in ETeVQueries}
     \/ ret \in {[op |-> "call", fn |-> "opt_depth_inverse", z |-> zs, tau |-> t] :
                   zs \in ZQueryValues, t \in TauQueryValues}
     \/ ret \in {[op |-> "call", fn |-> "opt_depth_Ebin", z |-> zs, Ebin |-> b,
                  Esteps |-> n] :
                   zs \in ZQueryValues, b \in EbinInputs, n \in EstepsInputs}

Frame == UNCHANGED <<inst, z, logEGeV, tau, tauSpline, ctorK, rebuilt, lastWrite>>

CallOptDepth ==
  /\ ret.op = "call" /\ ret.fn = "opt_depth"
  /\ ret' = [op |-> "opt_depth", z |-> ret.z, ETeV |-> ret.ETeV,
             out |-> opt_depth(ret.z, ret.ETeV)]
  /\ Frame

CallOptDepthInverse ==
  /\ ret.op = "call" /\ ret.fn = "opt_depth_inverse"
  /\ \E o \in opt_depth_inverse(ret.z, ret.tau) :
       ret' = [op |-> "opt_depth_inverse", z |-> ret.z, tau |-> ret.tau, out |-> o]
  /\ Frame

CallOptDepthEbin ==
  /\ ret.op = "call" /\ ret.fn = "opt_depth_Ebin"
  /\ ret' = [op |-> "opt_depth_Ebin", z |-> ret.z, Ebin |-> ret.Ebin,
             Esteps |-> ret.Esteps,
             out |-> opt_depth_Ebin([kind |-> "scalar", v |-> <<ret.z>>],
                                    ret.Ebin, ret.Esteps)]
  /\ Frame

NextEval == CallOptDepth \/ CallOptDepthInverse \/ CallOptDepthEbin

SpecEval == InitEval /\ [][NextEval]_vars

\* ---- properties -----------------------------------------------------------
Min(s) == CHOOSE m \in {s[i] : i \in 1..Len(s)} : \A i \in 1..Len(s) : m <= s[i]

Scalar(x) == [kind |-> "scalar", v |-> <<x>>]

\* the surface value at redshift zv and energy e TeV
SurfaceAt(zv, e) == SplineCall(tauSpline, LogGeV(<<e>>), <<zv>>)[1][1]

Returned == ret.op = "opt_depth" /\ ~ret.out.raised

Reversed(s) == Array([k \in 1..Len(s) |-> s[Len(s) + 1 - k]])

\* C1: opt_depth is invariant under permutation of its inputs: for every z
\* and E, in any order and with duplicates, entry [a, b] of the result is the
\* surface value at (z[a], E[b]) in the caller's order; in particular the
\* result for the reversed inputs is the result with rows and columns reversed.
C1_PermutationInvariant ==
  Returned =>
    LET zz == ret.z.v
        EE == ret.ETeV.v
        got == ret.out.value
    IN  /\ got = Array([a \in 1..Len(zz) |->
                   Array([b \in 1..Len(EE) |-> SurfaceAt(zz[a], EE[b])])])
        /\ opt_depth([kind |-> "array", v |-> Reversed(zz)],
                     [kind |-> "array", v |-> Reversed(EE)]).value
             = Reversed(Array([a \in 1..Len(zz) |-> Reversed(got[a])]))

\* an unsorted z and an unsorted E whose four values differ
C1_Witness ==
  /\ Returned
  /\ ret.z.v = <<2, 1>>
  /\ ret.ETeV.v = <<100, 10>>
  /\ ret.out.value[1][1] > ret.out.value[1][2]
  /\ ret.out.value[1][2] > ret.out.value[2][2]

\* C2: right after construction opt_depth at a grid point, redshift z[j] and
\* energy E_i / 1000 TeV, returns tau[i][j] (energy index first).
C2_GridPoint ==
  (Returned /\ ~rebuilt /\ lastWrite = "ok") =>
    \A a \in 1..Len(ret.z.v), b \in 1..Len(ret.ETeV.v) :
      \A i \in 1..Len(logEGeV), j \in 1..Len(z) :
        (ret.z.v[a] = z[j] /\ ret.ETeV.v[b] * GeVperTeV = Pow10(logEGeV[i]))
          => ret.out.value[a][b] = tau[i][j]

\* z grid [0.1, 0.5, 1.0], energies [10, 100, 1000] and the scenario's tau:
\* the second redshift and the second energy give 0.3
C2_Witness ==
  /\ Returned
  /\ ~rebuilt
  /\ z = <<1, 2, 3>> /\ logEGeV = <<3, 4, 5>> /\ tau = TauScenario
  /\ ret.z = Scalar(2) /\ ret.ETeV = Scalar(10)
  /\ ret.out.value = <<<<3>>>>

\* C3: construction, and the replacement of a grid, raise whenever the tau
\* grid's shape is not (len(energy grid), len(redshift grid)); a failed
\* construction returns no instance.
C3_ShapeError ==
  /\ (ret.op = "init" /\ ~IsMatrix(ret.tau, Len(ret.EGeV), Len(ret.z)))
       => (ret.raised /\ ~inst)
  /\ (ret.op \in {"z", "logEGeV", "tau"} /\ ~IsMatrix(tau, Len(logEGeV), Len(z)))
       => ret.raised

\* a redshift grid of length 2 assigned to a table with a 3 x 3 tau
C3_Witness ==
  /\ ret.op = "z" /\ ret.raised
  /\ Len(z) = 2 /\ IsMatrix(tau, 3, 3) /\ Len(logEGeV) = 3

\* C4: after construction and after a replacement that returned, the cached
\* spline is the one built from the grids the accessors return, and opt_depth
\* reads the current tau at the knots of the current grids.
C4_SurfaceCurrent ==
  (inst /\ lastWrite = "ok") =>
    /\ tauSpline.x = logEGeV /\ tauSpline.y = z /\ tauSpline.z = tau
    /\ Returned =>
         \A a \in 1..Len(ret.z.v), b \in 1..Len(ret.ETeV.v) :
           ret.out.value[a][b] =
             tau[KnotIndex(logEGeV, Log10(ret.ETeV.v[b] * GeVperTeV))][KnotIndex(z, ret.z.v[a])]

\* an evaluation after a replacement that changed the spline's tau
C4_Witness ==
  /\ Returned /\ rebuilt /\ lastWrite = "ok"
  /\ tau = TauFall(3, 3) /\ z = <<2, 3, 4>> /\ logEGeV = <<4, 5, 6>>

\* C5: a replacement that raises leaves the three stored grids and the cached
\* spline exactly as they were before the call.
C5_FailedReplacementChangesNothing ==
  [][(ret'.op \in {"z", "logEGeV", "tau"} /\ ret'.raised)
       => UNCHANGED <<z, logEGeV, tau, tauSpline>>]_vars

\* C6: the result's shape is Nz x NE, an axis being removed only for an input
\* that was passed as a scalar.
C6_ShapeByScalars ==
  Returned =>
    ret.out.shape =
      (IF ret.z.kind = "scalar" THEN <<>> ELSE <<Len(ret.z.v)>>)
        \o (IF ret.ETeV.kind = "scalar" THEN <<>> ELSE <<Len(ret.ETeV.v)>>)

\* C7: in every reachable state opt_depth warns exactly when a requested
\* redshift is below the minimum of the stored redshift grid, and returns a
\* result of the normal shape either way.
C7_RangeWarning ==
  ret.op = "opt_depth" =>
    /\ ret.out.warned <=> \E a \in 1..Len(ret.z.v) : ret.z.v[a] < Min(z)
    /\ ~ret.out.raised
    /\ ret.out.shape = Squeeze(<<Len(ret.z.v), Len(ret.ETeV.v)>>)

\* C8: opt_depth_Ebin returns one average per bin, and for bin i calls
\* opt_depth on exactly that bin's Esteps log-spaced energies.
C8_EbinPerBin ==
  ret.op = "opt_depth_Ebin" =>
    /\ ~ret.out.raised
    /\ Len(ret.out.value) = Len(ret.Ebin) - 1
    /\ Len(ret.out.calls) = Len(ret.Ebin) - 1
    /\ \A i \in 1..Len(ret.out.calls) :
         /\ ret.out.calls[i].kind = "array"
         /\ ret.out.calls[i].v = Linspace(ret.Ebin[i], ret.Ebin[i + 1], ret.Esteps)

\* tau is strictly increasing in energy at every redshift of the table
TauRisesWithEnergy ==
  \A j \in 1..Len(z) : StrictlyIncreasing([i \in 1..Len(tau) |-> tau[i][j]])

\* the samples opt_depth_inverse interpolates at redshift zs
Samples(zs) == Array([i \in 1..Len(logEGeV) |-> SurfaceAt(zs, Pow10(logEGeV[i]) \div GeVperTeV)])

C10_Degrees ==
  inst => <<tauSpline.kx, tauSpline.ky>> =
            (IF rebuilt THEN <<DefaultK, DefaultK>> ELSE ctorK)

\* a table constructed with degrees (1, 1) and rebuilt by a replacement
C10_Witness ==
  /\ inst /\ rebuilt /\ ctorK = <<1, 1>>
  /\ tauSpline.kx = 2 /\ tauSpline.ky = 2
====
